---- MODULE Spec2Model ----
(***************************************************************************)
(* A model of the Telegram screenshot bot: the per-user daily limiter      *)
(* (bot.py check_and_increment_limit), the reply helper (bot.py            *)
(* safe_reply), the result formatter (bot.py format_result), the           *)
(* screenshot parser's JSON extraction (parsing.py parse_screenshot), the  *)
(* retrieval pipeline (rag.py answer_query) and the image handler          *)
(* (bot.py handle_image).                                                  *)
(***************************************************************************)
EXTENDS Integers, Sequences, FiniteSets, TLC

(* ---------------------------- bounds ----------------------------------- *)
NumUsers == 2
MaxDay == 2
MaxLimit == 3
NumConns == 2
NumThreads == 2
MaxRetries == 3
MaxStrLen == 2
MaxOptions == 2
MaxNodes == 2
MaxMinScore == 1
MaxHandlerLimit == 1

Users == 1..NumUsers
Days == 0..MaxDay
Conns == 1..NumConns

VARIABLES
  (* the limiter: configuration, clock, the user_limits table, history *)
  LIMIT_PER_DAY,   \* bot.py:37, read once from the environment
  today,           \* the current UTC date, as a day number
  user_limits,     \* the table user_limits: user_id -> row
  last,            \* the last call made on the event loop (bot.py:91)
  accepted,        \* per user: the 'remaining' values returned by the calls
                   \* allowed on the current UTC date, in order
  (* concurrent callers of check_and_increment_limit, one connection each *)
  c_pc, c_user, c_today, c_count, db_lock,
  (* safe_reply: the call in progress and the chat it writes to *)
  sr_pc,           \* "idle", "try", "returned" or "raised"
  sr_text,         \* the text to send
  sr_retries,      \* the parameter retries
  sr_attempt,      \* the loop variable attempt; retries once the loop is over
  sr_log,          \* the outcome of each reply_text call made, in order
  sr_exc,          \* the exception that left safe_reply, or "none"
  chat,            \* the texts Telegram delivered to the chat, in order
  (* format_result called on its own *)
  f_called, f_data, f_result,
  (* rag.py: the module globals and the answer_query call in progress *)
  RAG_MIN_SCORE,   \* rag.py:107, the environment's threshold (scaled to an integer)
  rag_index,       \* _index: "none" or "loaded"
  rag_retriever,   \* _retriever: "none" or "created"
  rag_pc,          \* "idle", "get_retriever", "retrieve", "answer" or "done"
  rag_query,       \* the parameter query
  rag_nodes,       \* nodes, what retriever.retrieve returned
  rag_prompts,     \* the prompts given to Settings.llm.complete by this call
  rag_result,      \* what the call returned, or that it raised
  (* bot.py handle_image: the update being handled *)
  ENABLE_RAG,      \* bot.py:18
  h_pc,            \* where the handler is
  h_after,         \* where the handler goes on when safe_reply returns
  h_in_try,        \* whether that safe_reply call is inside the try block
  h_parsed,        \* whether parse_screenshot's result reached the handler
  h_data,          \* data
  h_text,          \* parsed_text, then output_text
  h_chunks,        \* the chunks still to send
  h_outcome,       \* "none", "returned" or "raised" (an exception escaped)
  h_failed,        \* the first step of this update that failed, or "none"
  h_events,        \* the calls made for this update, in order
  h_user,          \* user_id of this update, 0 for None
  (* the thread running parse_screenshot *)
  p_pc,            \* "idle", "running", "done" or "raised"
  p_content,       \* the model output the thread got
  p_result,        \* what parse_screenshot made of it
  (* _get_retriever run by concurrent answer_query calls *)
  gr_index,        \* _index: 0 for None, else which index object
  gr_retriever,    \* _retriever: 0 for None, else which retriever object
  gr_loads,        \* how many times _load_index has returned an index
  gr_made,         \* how many retriever objects as_retriever has made
  gr_used,         \* the retriever objects returned to answer_query calls
  gr_pc,           \* where each thread is in answer_query
  gr_ret           \* the retriever each running call got, 0 before that

limVars == <<LIMIT_PER_DAY, today, user_limits, last, accepted>>
concVars == <<c_pc, c_user, c_today, c_count, db_lock>>
srVars == <<sr_pc, sr_text, sr_retries, sr_attempt, sr_log, sr_exc, chat>>
fmtVars == <<f_called, f_data, f_result>>
hVars == <<ENABLE_RAG, h_pc, h_after, h_in_try, h_parsed,
           h_data, h_text, h_chunks, h_outcome, h_failed, h_events, h_user, p_pc, p_content,
           p_result>>
grVars == <<gr_index, gr_retriever, gr_loads, gr_made, gr_used, gr_pc, gr_ret>>
ragVars == <<RAG_MIN_SCORE, rag_index, rag_retriever, rag_pc, rag_query, rag_nodes,
             rag_prompts, rag_result>>

(* ------------------- check_and_increment_limit ------------------------- *)
NoRow == [present |-> FALSE, date |-> 0, count |-> 0]
Row(d, c) == [present |-> TRUE, date |-> d, count |-> c]
NoCall == [called |-> FALSE, user |-> 0, today |-> 0, prev |-> NoRow,
           allowed |-> FALSE, remaining |-> 0]

Max(a, b) == IF a >= b THEN a ELSE b

\* bot.py:197-200: the count the call starts from
StoredCountIgnoringDate(row, now) == IF ~row.present THEN 0 ELSE row.count
StoredCount(row, now) ==
  IF ~row.present \/ row.date # now THEN 0 ELSE row.count

\* bot.py:202: the denial test
LimitReachedOffByOne(count, limit) == count > limit
LimitReached(count, limit) == count >= limit

\* bot.py:214: the value shown as 'Remaining today'
RemainingBeforeIncrement(count, limit) == Max(limit - count + 1, 0)
Remaining(count, limit) == Max(limit - count, 0)

\* bot.py:185-217, run without interruption: the only caller, handle_image,
\* calls it synchronously on the event loop (bot.py:91).
check_and_increment_limit(u) ==
  LET row == user_limits[u]
      count == StoredCount(row, today)
  IN IF LimitReached(count, LIMIT_PER_DAY)
     THEN /\ last' = [called |-> TRUE, user |-> u, today |-> today,
                      prev |-> row, allowed |-> FALSE, remaining |-> 0]
          /\ UNCHANGED <<user_limits, accepted>>
     ELSE /\ user_limits' = [user_limits EXCEPT ![u] = Row(today, count + 1)]
          /\ last' = [called |-> TRUE, user |-> u, today |-> today,
                      prev |-> row, allowed |-> TRUE,
                      remaining |-> Remaining(count + 1, LIMIT_PER_DAY)]
          /\ accepted' = [accepted EXCEPT ![u] =
                            Append(@, Remaining(count + 1, LIMIT_PER_DAY))]

\* bot.py:186: datetime.now(timezone.utc) moves on to the next date
AdvanceDay ==
  /\ today < MaxDay
  /\ today' = today + 1
  /\ accepted' = [u \in Users |-> <<>>]

ConcIdle ==
  /\ c_pc = [c \in Conns |-> "idle"]
  /\ c_user = [c \in Conns |-> 0]
  /\ c_today = [c \in Conns |-> 0]
  /\ c_count = [c \in Conns |-> 0]
  /\ db_lock = 0

LimInit ==
  /\ LIMIT_PER_DAY \in 0..MaxLimit
  /\ today = 0
  /\ user_limits = [u \in Users |-> NoRow]
  /\ last = NoCall
  /\ accepted = [u \in Users |-> <<>>]

(* ----------------------------- safe_reply ------------------------------ *)
DefaultRetries == 3

\* the ways message.reply_text can end: delivered, telegram.error.RetryAfter,
\* another Exception, or a BaseException such as asyncio.CancelledError
ReplyOutcomes == {"ok", "RetryAfter", "Exception", "BaseException"}
ReplyTexts == {<<"a">>, <<"b">>}

\* bot.py:172: for attempt in range(retries)
InLoopOneMore(attempt, retries) == attempt <= retries
InLoop(attempt, retries) == attempt < retries

\* bot.py:176-180: the failures the loop catches and retries after a sleep
CaughtRetryAfterOnly(outcome) == outcome = "RetryAfter"
Caught(outcome) == outcome \in {"RetryAfter", "Exception"}

SrIdle ==
  /\ sr_pc = "idle"
  /\ sr_text = <<>>
  /\ sr_retries = 0
  /\ sr_attempt = 0
  /\ sr_log = <<>>
  /\ sr_exc = "none"
  /\ chat = <<>>

\* safe_reply is over and its locals are gone
sr_leave ==
  /\ sr_pc' = "idle"
  /\ sr_text' = <<>>
  /\ sr_retries' = 0
  /\ sr_attempt' = 0
  /\ sr_log' = <<>>
  /\ sr_exc' = "none"

\* bot.py:171: safe_reply(message, text, retries) is entered
sr_enter(text, retries) ==
  /\ sr_pc' = "try"
  /\ sr_text' = text
  /\ sr_retries' = retries
  /\ sr_attempt' = 0
  /\ sr_log' = <<>>
  /\ sr_exc' = "none"

\* bot.py:172-182: one await message.reply_text(text), in the loop or as the
\* last try, and what follows it up to the next reply_text
sr_reply_text(outcome) ==
  /\ sr_pc = "try"
  /\ sr_log' = Append(sr_log, outcome)
  /\ IF outcome = "ok"
     THEN /\ chat' = Append(chat, sr_text)
          /\ sr_pc' = "returned"
          /\ UNCHANGED <<sr_attempt, sr_exc>>
     ELSE IF InLoop(sr_attempt, sr_retries) /\ Caught(outcome)
     THEN /\ sr_attempt' = sr_attempt + 1
          /\ UNCHANGED <<sr_pc, sr_exc, chat>>
     ELSE /\ sr_pc' = "raised"
          /\ sr_exc' = outcome
          /\ UNCHANGED <<sr_attempt, chat>>
  /\ UNCHANGED <<sr_text, sr_retries>>

(* ------------------------------- text ---------------------------------- *)
(* A string is a sequence of tokens: " " and NL are whitespace characters, *)
(* every other token is a piece of text without whitespace at its ends.    *)
NL == "\n"
IsSpace(ch) == ch \in {" ", NL}

\* str.strip()
RECURSIVE LStrip(_)
LStrip(str) ==
  IF str # <<>> /\ IsSpace(Head(str)) THEN LStrip(Tail(str)) ELSE str
RECURSIVE RStrip(_)
RStrip(str) ==
  IF str # <<>> /\ IsSpace(str[Len(str)])
  THEN RStrip(SubSeq(str, 1, Len(str) - 1)) ELSE str
Strip(str) == RStrip(LStrip(str))

\* "\n".join(lines)
RECURSIVE Join(_)
Join(lines) ==
  IF lines = <<>> THEN <<>>
  ELSE IF Len(lines) = 1 THEN lines[1]
  ELSE lines[1] \o <<NL>> \o Join(Tail(lines))

\* all strings of at most n characters over an alphabet
RECURSIVE StringsUpTo(_, _)
StringsUpTo(alphabet, n) ==
  IF n = 0 THEN {<<>>}
  ELSE LET shorter == StringsUpTo(alphabet, n - 1)
       IN shorter \cup {Append(str, ch) : str \in shorter, ch \in alphabet}

(* --------------------------- JSON values ------------------------------- *)
(* The value of a key of the parsed record: the key is absent, or holds    *)
(* null, a string, or a list whose items are strings ("A", "B") or numbers *)
(* (the items in NumberItems).                                             *)
Absent == [k |-> "absent", v |-> <<>>]
Null == [k |-> "null", v |-> <<>>]
Str(str) == [k |-> "str", v |-> str]
List(items) == [k |-> "list", v |-> items]

StringItems == {"A", "B"}
NumberItems == {"1"}
\* isinstance(opt, str)
IsStrItem(item) == item \in StringItems

\* bool(value): None, "" and [] are false
Truthy(val) == val.k \in {"str", "list"} /\ val.v # <<>>

Record(err, raw, question, options, correct, explanation, sign) ==
  [error |-> err, raw |-> raw, question |-> question, options |-> options,
   correct |-> correct, explanation |-> explanation, sign_description |-> sign]

(* ---------------------------- format_result ---------------------------- *)
Returns(text) == [ok |-> TRUE, text |-> text]
Raises == [ok |-> FALSE, text |-> <<>>]
Fallback == <<"No useful text could be extracted from the image.">>

RECURSIVE SelectItems(_)
SelectItems(items) ==
  IF items = <<>> THEN <<>>
  ELSE IF IsStrItem(Head(items)) THEN <<(<<Head(items)>>)>> \o SelectItems(Tail(items))
  ELSE SelectItems(Tail(items))

\* bot.py:46-48
QuestionLines(data) ==
  LET question == Strip(data.question.v)
  IN IF question # <<>> THEN << <<"Question: ">> \o question >> ELSE <<>>

\* bot.py:50-53: the blank line is appended before the items are filtered
OptionLines(data) ==
  IF Truthy(data.options) THEN << <<>> >> \o SelectItems(data.options.v) ELSE <<>>

\* bot.py:55-58
CorrectLines(data) ==
  IF Truthy(data.correct) THEN << <<>>, <<"Correct answer: ">> \o data.correct.v >>
  ELSE <<>>

\* bot.py:60-64
ExplanationLines(data) ==
  LET explanation == Strip(data.explanation.v)
  IN IF explanation # <<>> THEN << <<>>, <<"Explanation from LLM:">>, explanation >>
     ELSE <<>>

\* bot.py:66-69
SignLines(data) ==
  LET sign_description == Strip(data.sign_description.v)
  IN IF sign_description # <<>> THEN << <<>>, <<"Sign: ">> \o sign_description >>
     ELSE <<>>

\* bot.py:41-74.  data.get("question", "").strip() raises AttributeError when
\* the key holds null or a list.
format_result(data) ==
  IF data.error.k # "absent"
  THEN Returns(<<"Error: ">> \o data.error.v \o <<NL, NL, "Raw output:", NL>> \o data.raw.v)
  ELSE IF data.question.k \notin {"absent", "str"} THEN Raises
  ELSE LET lines == QuestionLines(data) \o OptionLines(data) \o CorrectLines(data)
                      \o ExplanationLines(data) \o SignLines(data)
       IN IF lines = <<>> THEN Returns(Fallback) ELSE Returns(Join(lines))

\* the records format_result is given
OptionalStrings(alphabet) == {Absent, Null} \cup {Str(str) : str \in StringsUpTo(alphabet, MaxStrLen)}
OptionLists == {Absent, Null} \cup
  {List(items) : items \in StringsUpTo(StringItems \cup NumberItems, MaxOptions)}
ParseError == <<"Failed to parse JSON">>
FormatInputs ==
  {Record(Str(ParseError), Str(raw), Absent, Absent, Absent, Absent, Absent) :
      raw \in StringsUpTo({" ", "x"}, MaxStrLen)}
  \cup
  {Record(Absent, Absent, question, options, correct, explanation, sign) :
      question \in OptionalStrings({" ", "q"}),
      options \in OptionLists,
      correct \in {Absent, Null, Str(<<>>), Str(<<"C">>)},
      explanation \in {Absent, Null, Str(<<" ">>), Str(<<"e">>), Str(<<"e", " ">>)},
      sign \in {Absent, Null, Str(<<" ">>), Str(<<"s">>)}}

FmtIdle ==
  /\ f_called = FALSE
  /\ f_data = Record(Absent, Absent, Absent, Absent, Absent, Absent, Absent)
  /\ f_result = Raises

FormatCall ==
  \E data \in FormatInputs :
    /\ ~f_called
    /\ f_called' = TRUE
    /\ f_data' = data
    /\ f_result' = format_result(data)

(* --------------------------- parse_screenshot -------------------------- *)
(* The output of the vision model is a string over: whitespace, a fence,  *)
(* the word json, other text ("x"), and whole JSON documents, each a token *)
(* of JsonDocs.                                                            *)
\* the token for a code fence, three backquotes
Fence == "<fence>"
JsonDocs == {"{full}", "{empty}", "{qnull}", "{optnull}", "{optnum}", "[list]"}

\* json.loads of a document: the value it stands for
Decode(doc) ==
  CASE doc = "{full}" ->
         [dict |-> TRUE,
          rec |-> Record(Absent, Absent, Str(<<"q">>), List(<<"A", "B">>), Str(<<"C">>),
                         Str(<<"e">>), Str(<<"s">>))]
    [] doc = "{empty}" ->
         [dict |-> TRUE,
          rec |-> Record(Absent, Absent, Absent, Absent, Absent, Absent, Absent)]
    [] doc = "{qnull}" ->
         [dict |-> TRUE,
          rec |-> Record(Absent, Absent, Null, List(<<"A">>), Null, Null, Null)]
    [] doc = "{optnull}" ->
         [dict |-> TRUE,
          rec |-> Record(Absent, Absent, Str(<<"q">>), Null, Null, Null, Null)]
    [] doc = "{optnum}" ->
         [dict |-> TRUE,
          rec |-> Record(Absent, Absent, Str(<<"q">>), List(<<"1">>), Null, Null, Null)]
    [] OTHER ->
         [dict |-> FALSE,
          rec |-> Record(Absent, Absent, Absent, Absent, Absent, Absent, Absent)]

\* the first index at which sub occurs in str, 0 when it does not
FindSub(str, sub) ==
  LET hits == {i \in 1..(Len(str) - Len(sub) + 1) : SubSeq(str, i, i + Len(sub) - 1) = sub}
  IN IF hits = {} THEN 0 ELSE CHOOSE i \in hits : \A j \in hits : i <= j

\* str.split(sep)[0] and str.split(sep)[1] (sep occurs in str)
SplitFirst(str, sep) ==
  LET i == FindSub(str, sep)
  IN IF i = 0 THEN str ELSE SubSeq(str, 1, i - 1)
SplitSecond(str, sep) ==
  LET i == FindSub(str, sep)
      rest == SubSeq(str, i + Len(sep), Len(str))
  IN SplitFirst(rest, sep)

\* parsing.py:89-92: the text handed to json.loads
Extract(raw_text) ==
  IF FindSub(raw_text, <<Fence, "json">>) # 0
  THEN Strip(SplitFirst(SplitSecond(raw_text, <<Fence, "json">>), <<Fence>>))
  ELSE IF FindSub(raw_text, <<Fence>>) # 0
  THEN Strip(SplitSecond(raw_text, <<Fence>>))
  ELSE raw_text

\* parsing.py:94: json.loads succeeds on one document, whitespace around it
JsonLoads(text) == Len(Strip(text)) = 1 /\ Strip(text)[1] \in JsonDocs

\* parsing.py:83-122: from the model's output to the returned record; the
\* .txt writer (parsing.py:108-114) raises on a value that is no dict and on
\* "options": null
parse_screenshot(content) ==
  LET raw_text == Extract(Strip(content))
  IN IF ~JsonLoads(raw_text)
     THEN [raised |-> FALSE,
           data |-> Record(Str(ParseError), Str(raw_text), Absent, Absent, Absent,
                           Absent, Absent)]
     ELSE LET value == Decode(Strip(raw_text)[1])
          IN IF ~value.dict \/ value.rec.options.k = "null"
             THEN [raised |-> TRUE, data |-> value.rec]
             ELSE [raised |-> FALSE, data |-> value.rec]

(* ----------------------------- answer_query ---------------------------- *)
\* a retrieved node: its score (None when has_score is false) and its content
Node(has_score, score, content) ==
  [has_score |-> has_score, score |-> score, content |-> content]
Nodes ==
  {Node(FALSE, 0, content) : content \in {"c1", "c2"}}
  \cup {Node(TRUE, score, content) : score \in -1..(MaxMinScore + 1), content \in {"c1", "c2"}}
NodeLists == StringsUpTo(Nodes, MaxNodes)

\* rag.py:108: n.score is None or n.score >= min_score
PassesAboveOnly(node, min_score) == ~node.has_score \/ node.score > min_score
Passes(node, min_score) == ~node.has_score \/ node.score >= min_score

\* rag.py:108: the list comprehension keeps the retrieval order
RECURSIVE Filtered(_, _)
Filtered(nodes, min_score) ==
  IF nodes = <<>> THEN <<>>
  ELSE IF Passes(Head(nodes), min_score)
  THEN <<Head(nodes)>> \o Filtered(Tail(nodes), min_score)
  ELSE Filtered(Tail(nodes), min_score)

\* rag.py:115: "\n\n".join([n.get_content() for n in filtered])
RECURSIVE Context(_)
Context(nodes) ==
  IF nodes = <<>> THEN <<>>
  ELSE IF Len(nodes) = 1 THEN <<nodes[1].content>>
  ELSE <<nodes[1].content, NL, NL>> \o Context(Tail(nodes))

\* rag.py:116-129: qa_template.format(context_str=context, query_str=query)
Prompt(context, query) ==
  <<"You are a driving theory exam tutor. ... Context:", NL>> \o context
    \o <<NL, NL, "Question:", NL>> \o query \o <<NL, NL, "Answer:">>

\* rag.py:113
NotSure == <<"Answer: Not sure", NL, "Explanation: Not enough information in the context.">>

RagQueries == {<<"Q1">>, <<"Q2">>}
\* resp.text, as the LLM returns it
LlmTexts == {<<"Answer: A">>, <<" ", "Answer: B", NL>>}
NoResult == [ok |-> FALSE, text |-> <<>>]

RagIdle ==
  /\ rag_index = "none"
  /\ rag_retriever = "none"
  /\ rag_pc = "idle"
  /\ rag_query = <<>>
  /\ rag_nodes = <<>>
  /\ rag_prompts = <<>>
  /\ rag_result = NoResult

\* the exception leaves answer_query
rag_raise ==
  /\ rag_pc' = "done"
  /\ rag_result' = Raises

\* rag.py:103: answer_query(query) is entered
rag_enter(query) ==
  /\ rag_pc' = "get_retriever"
  /\ rag_query' = query
  /\ rag_nodes' = <<>>
  /\ rag_prompts' = <<>>
  /\ rag_result' = NoResult
  /\ UNCHANGED <<RAG_MIN_SCORE, rag_index, rag_retriever>>

\* rag.py:93-100, 104: _get_retriever; _load_index (rag.py:75-90) returns the
\* index or raises (no OPENAI_API_KEY, no prebuilt index, a storage error)
rag_get_retriever(load_ok) ==
  /\ rag_pc = "get_retriever"
  /\ IF rag_retriever # "none"
     THEN /\ rag_pc' = "retrieve"
          /\ UNCHANGED <<rag_index, rag_retriever, rag_result>>
     ELSE IF rag_index = "none" /\ ~load_ok
     THEN /\ rag_raise
          /\ UNCHANGED <<rag_index, rag_retriever>>
     ELSE /\ rag_index' = "loaded"
          /\ rag_retriever' = "created"
          /\ rag_pc' = "retrieve"
          /\ UNCHANGED rag_result
  /\ UNCHANGED <<RAG_MIN_SCORE, rag_query, rag_nodes, rag_prompts>>

\* rag.py:105: nodes = retriever.retrieve(query)
rag_retrieve(nodes) ==
  /\ rag_pc = "retrieve"
  /\ rag_nodes' = nodes
  /\ rag_pc' = "answer"
  /\ UNCHANGED <<RAG_MIN_SCORE, rag_index, rag_retriever, rag_query, rag_prompts, rag_result>>

\* rag.py:105: retriever.retrieve raises (the embedding request fails)
rag_retrieve_fails ==
  /\ rag_pc = "retrieve"
  /\ rag_raise
  /\ UNCHANGED <<RAG_MIN_SCORE, rag_index, rag_retriever, rag_query, rag_nodes, rag_prompts>>

\* rag.py:107-131: the filter, then the fixed text or the one complete call,
\* which returns llm_text or raises
rag_answer(llm_ok, llm_text) ==
  /\ rag_pc = "answer"
  /\ LET filtered == Filtered(rag_nodes, RAG_MIN_SCORE)
     IN IF filtered = <<>>
        THEN /\ rag_result' = Returns(NotSure)
             /\ UNCHANGED rag_prompts
        ELSE /\ rag_prompts' = Append(rag_prompts, Prompt(Context(filtered), rag_query))
             /\ rag_result' = IF llm_ok THEN Returns(Strip(llm_text)) ELSE Raises
  /\ rag_pc' = "done"
  /\ UNCHANGED <<RAG_MIN_SCORE, rag_index, rag_retriever, rag_query, rag_nodes>>

(* ----------------------------- handle_image ---------------------------- *)
max_len == 3500

EmptyRecord == Record(Absent, Absent, Absent, Absent, Absent, Absent, Absent)
\* the vision model's outputs: text or nothing, then maybe an opening fence,
\* a JSON document or other text or nothing, and what follows it
ContentPrefixes == {<<>>, <<" ">>, <<"x", " ">>, <<Fence>>, <<Fence, "json", NL>>,
                    <<"x", NL, Fence, "json", NL>>}
ContentBodies == {<<>>, <<"x">>} \cup {<<doc>> : doc \in JsonDocs}
ContentSuffixes == {<<>>, <<NL>>, <<NL, Fence>>, <<NL, Fence, NL, "x">>}
Contents ==
  {pre \o body \o post :
     pre \in ContentPrefixes, body \in ContentBodies, post \in ContentSuffixes}

\* bot.py:95, 98, 106, 115, 130, 135, 161, 164: the fixed replies
LimitReachedText ==
  <<"Daily limit reached (", ToString(LIMIT_PER_DAY), " requests). Try again tomorrow.">>
AcceptedText(remaining) == <<"Request accepted. Remaining today: ", ToString(remaining)>>
NotAnImageText == <<"Please send an image (photo or file).">>
ProcessingText == <<"Processing the screenshot. This can take a moment...">>
ParsedText == <<"Screenshot parsed successfully.">>
RunningRagText == <<"Running RAG...">>
TimedOutText == <<"Timed out while processing. Try again in a minute.">>
ErrorText(what) == <<"Error while processing: ", what>>

\* bot.py:126-127, 157-158: text[i : i + n] for i in range(0, len(text), n)
RECURSIVE Chunks(_, _)
Chunks(text, n) ==
  IF text = <<>> THEN <<>>
  ELSE IF Len(text) <= n THEN <<text>>
  ELSE <<SubSeq(text, 1, n)>> \o Chunks(SubSeq(text, n + 1, Len(text)), n)

\* bot.py:136-149: the query; "\n".join raises TypeError on an option that is
\* no string
BuildQuery(data) ==
  LET question == Strip(data.question.v)
      options == data.options
      prompt_lines ==
        << <<"Analyze the driver's theory test question (Spanish Permiso B / DGT).">>,
           <<"Select the correct option and briefly explain why.">>,
           <<>>,
           <<"Question: ">> \o question >>
        \o (IF Truthy(options)
            THEN << <<>> >> \o [i \in 1..Len(options.v) |-> <<options.v[i]>>]
            ELSE <<>>)
  IN IF Truthy(options) /\ \E i \in 1..Len(options.v) : ~IsStrItem(options.v[i])
     THEN Raises
     ELSE Returns(Strip(Join(prompt_lines)))

HandlerIdle ==
  /\ h_pc = "idle"
  /\ h_after = "return"
  /\ h_in_try = FALSE
  /\ h_parsed = FALSE
  /\ h_data = EmptyRecord
  /\ h_text = <<>>
  /\ h_chunks = <<>>
  /\ h_outcome = "none"
  /\ h_failed = "none"
  /\ h_events = <<>>
  /\ h_user = 0
  /\ p_pc = "idle"
  /\ p_content = <<>>
  /\ p_result = [raised |-> FALSE, data |-> EmptyRecord]

\* await safe_reply(message, text), then go on at `after`
h_safe_reply(text, after, in_try) ==
  /\ sr_enter(text, DefaultRetries)
  /\ h_pc' = "reply"
  /\ h_after' = after
  /\ h_in_try' = in_try

\* the handler is over: it returned, or an exception left it
h_finish(outcome) ==
  /\ h_pc' = "done"
  /\ h_outcome' = outcome

\* bot.py:159-164: the except blocks; the reply they send is outside the try
h_except(text) == h_safe_reply(text, "return", FALSE)

AfterCheckAlwaysFetch(allowed) == "fetch"

\* bot.py:92-98: where the handler goes on after the reply to the limit check
AfterCheck(allowed) == IF allowed THEN "fetch" ELSE "return"

\* bot.py:83-98: a new update, from `user` (0: the message has no sender);
\* the limit check and the first reply
h_receive(has_message, user) ==
  /\ h_pc \in {"idle", "done"}
  /\ h_parsed' = FALSE
  /\ h_data' = EmptyRecord
  /\ h_text' = <<>>
  /\ h_chunks' = <<>>
  /\ h_failed' = "none"
  /\ chat' = <<>>
  /\ UNCHANGED <<ENABLE_RAG, p_pc, p_content, p_result, LIMIT_PER_DAY, today>>
  /\ IF ~has_message
     THEN /\ h_finish("returned")
          /\ h_events' = <<>>
          /\ h_user' = 0
          /\ sr_leave
          /\ UNCHANGED <<h_after, h_in_try, user_limits, last, accepted>>
     ELSE IF user = 0
     THEN /\ h_pc' = "fetch"
          /\ h_outcome' = "none"
          /\ h_events' = <<>>
          /\ h_user' = 0
          /\ sr_leave
          /\ UNCHANGED <<h_after, h_in_try, user_limits, last, accepted>>
     ELSE /\ check_and_increment_limit(user)
          /\ h_outcome' = "none"
          /\ h_user' = user
          /\ h_events' = << IF last'.allowed THEN "limit_allowed" ELSE "limit_denied" >>
          /\ h_safe_reply(IF last'.allowed THEN AcceptedText(last'.remaining)
                                           ELSE LimitReachedText,
                          AfterCheck(last'.allowed), FALSE)

\* safe_reply returned: the handler goes on
h_reply_returns ==
  /\ h_pc = "reply"
  /\ sr_pc = "returned"
  /\ sr_leave
  /\ IF h_after = "return"
     THEN h_finish("returned")
     ELSE h_pc' = h_after /\ UNCHANGED h_outcome
  /\ UNCHANGED chat
  /\ UNCHANGED <<ENABLE_RAG, h_after, h_in_try, h_parsed, h_data,
                 h_text, h_chunks, h_failed, h_events, h_user, p_pc, p_content, p_result>>

\* safe_reply raised: inside the try an Exception is caught by bot.py:162,
\* anything else leaves the handler
h_reply_raises ==
  /\ h_pc = "reply"
  /\ sr_pc = "raised"
  /\ h_failed' = IF h_failed = "none" THEN "reply" ELSE h_failed
  /\ IF h_in_try /\ sr_exc \in {"RetryAfter", "Exception"}
     THEN /\ h_except(ErrorText(sr_exc))
          /\ UNCHANGED h_outcome
     ELSE /\ h_finish("raised")
          /\ sr_leave
          /\ UNCHANGED <<h_after, h_in_try>>
  /\ UNCHANGED chat
  /\ UNCHANGED <<ENABLE_RAG, h_parsed, h_data, h_text, h_chunks,
                 h_events, h_user, p_pc, p_content, p_result>>

\* bot.py:100-104: the message holds a photo or an image document; get_file
h_get_file(kind, ok) ==
  /\ h_pc = "fetch"
  /\ kind \in {"photo", "document"}
  /\ h_events' = Append(h_events, "get_file") /\ UNCHANGED h_user
  /\ IF ok
     THEN h_pc' = "download" /\ UNCHANGED <<h_outcome, h_failed>>
     ELSE h_finish("raised") /\ h_failed' = "get_file"
  /\ UNCHANGED srVars
  /\ UNCHANGED <<ENABLE_RAG, h_after, h_in_try, h_parsed, h_data,
                 h_text, h_chunks, p_pc, p_content, p_result>>

\* bot.py:105-107: neither a photo nor an image document; a bare reply_text
h_not_image(kind, outcome) ==
  /\ h_pc = "fetch"
  /\ kind = "other"
  /\ IF outcome = "ok"
     THEN /\ chat' = Append(chat, NotAnImageText)
          /\ h_finish("returned")
          /\ UNCHANGED h_failed
     ELSE /\ h_finish("raised")
          /\ h_failed' = "reply"
          /\ UNCHANGED chat
  /\ UNCHANGED <<sr_pc, sr_text, sr_retries, sr_attempt, sr_log, sr_exc>>
  /\ UNCHANGED <<ENABLE_RAG, h_after, h_in_try, h_parsed, h_data,
                 h_text, h_chunks, h_events, h_user, p_pc, p_content, p_result>>

\* bot.py:109-115: download_to_drive, then the 'Processing' reply
h_download(ok) ==
  /\ h_pc = "download"
  /\ h_events' = Append(h_events, "download") /\ UNCHANGED h_user
  /\ IF ok
     THEN /\ h_safe_reply(ProcessingText, "parse", FALSE)
          /\ UNCHANGED <<h_outcome, h_failed>>
     ELSE /\ h_finish("raised")
          /\ h_failed' = "download"
          /\ UNCHANGED <<h_after, h_in_try, sr_pc, sr_text, sr_retries, sr_attempt, sr_log,
                         sr_exc>>
  /\ UNCHANGED chat
  /\ UNCHANGED <<ENABLE_RAG, h_parsed, h_data, h_text, h_chunks,
                 p_pc, p_content, p_result>>

\* bot.py:117-120: asyncio.to_thread(parse_screenshot, save_path)
h_parse_start ==
  /\ h_pc = "parse"
  /\ h_pc' = "await_parse"
  /\ p_pc' = "running"
  /\ h_events' = Append(h_events, "parse") /\ UNCHANGED h_user
  /\ UNCHANGED srVars
  /\ UNCHANGED <<ENABLE_RAG, h_after, h_in_try, h_parsed, h_data,
                 h_text, h_chunks, h_outcome, h_failed, p_content, p_result>>

\* parsing.py:54-122 in its thread: the vision request returns `content`
p_returns(content) ==
  /\ p_pc = "running"
  /\ p_pc' = "done"
  /\ p_content' = content
  /\ p_result' = parse_screenshot(content)
  /\ UNCHANGED srVars
  /\ UNCHANGED <<ENABLE_RAG, h_pc, h_after, h_in_try, h_parsed,
                 h_data, h_text, h_chunks, h_outcome, h_failed, h_events, h_user>>

\* parsing.py:59-80: encode_image or the vision request raises
p_raises ==
  /\ p_pc = "running"
  /\ p_pc' = "raised"
  /\ p_content' = <<>>
  /\ p_result' = [raised |-> TRUE, data |-> EmptyRecord]
  /\ UNCHANGED srVars
  /\ UNCHANGED <<ENABLE_RAG, h_pc, h_after, h_in_try, h_parsed,
                 h_data, h_text, h_chunks, h_outcome, h_failed, h_events, h_user>>

\* bot.py:120-130: the thread's result; format_result; the error chunks or
\* the 'parsed successfully' reply
h_parse_done ==
  /\ h_pc = "await_parse"
  /\ p_pc \in {"done", "raised"}
  /\ p_pc' = "idle"
  /\ p_content' = <<>>
  /\ p_result' = [raised |-> FALSE, data |-> EmptyRecord]
  /\ UNCHANGED <<ENABLE_RAG, h_events, h_user, chat>>
  /\ IF p_result.raised
     THEN /\ h_except(ErrorText("parse_screenshot"))
          /\ h_failed' = "parse"
          /\ UNCHANGED <<h_parsed, h_data, h_text, h_chunks, h_outcome>>
     ELSE /\ h_parsed' = TRUE
          /\ h_data' = p_result.data
          /\ LET parsed == format_result(p_result.data)
             IN IF ~parsed.ok
                THEN /\ h_except(ErrorText("format_result"))
                     /\ h_failed' = "format"
                     /\ UNCHANGED <<h_text, h_chunks, h_outcome>>
                ELSE IF p_result.data.error.k # "absent"
                THEN /\ h_text' = parsed.text
                     /\ h_chunks' = Chunks(parsed.text, max_len)
                     /\ h_pc' = "send"
                     /\ UNCHANGED <<h_after, h_in_try, h_outcome, h_failed>>
                     /\ UNCHANGED <<sr_pc, sr_text, sr_retries, sr_attempt, sr_log, sr_exc>>
                ELSE /\ h_text' = parsed.text \o <<NL, NL, "Timing: parse=">>
                     /\ h_safe_reply(ParsedText, "parsed", TRUE)
                     /\ UNCHANGED <<h_chunks, h_outcome, h_failed>>

\* bot.py:120, 159-161: 120 s passed before the thread finished; the thread
\* runs on, its result is dropped
h_parse_timeout ==
  /\ h_pc = "await_parse"
  /\ p_pc = "running"
  /\ p_pc' = "idle"
  /\ h_failed' = "timeout"
  /\ h_except(TimedOutText)
  /\ UNCHANGED chat
  /\ UNCHANGED <<ENABLE_RAG, h_parsed, h_data, h_text, h_chunks,
                 h_outcome, h_events, h_user, p_content, p_result>>

\* bot.py:132-135: without RAG the output is sent, with RAG 'Running RAG...'
h_after_parsed ==
  /\ h_pc = "parsed"
  /\ IF ENABLE_RAG
     THEN /\ h_safe_reply(RunningRagText, "rag", TRUE)
          /\ UNCHANGED h_chunks
     ELSE /\ h_chunks' = Chunks(h_text, max_len)
          /\ h_pc' = "send"
          /\ UNCHANGED <<h_after, h_in_try, sr_pc, sr_text, sr_retries, sr_attempt, sr_log,
                         sr_exc>>
  /\ UNCHANGED chat
  /\ UNCHANGED <<ENABLE_RAG, h_parsed, h_data, h_text, h_outcome,
                 h_failed, h_events, h_user, p_pc, p_content, p_result>>

\* bot.py:136-152: the query is built and answer_query started in a thread
h_rag_start ==
  /\ h_pc = "rag"
  /\ UNCHANGED chat
  /\ UNCHANGED <<ENABLE_RAG, h_parsed, h_data, h_text, h_chunks,
                 h_outcome, p_pc, p_content, p_result>>
  /\ LET query == BuildQuery(h_data)
     IN IF ~query.ok
        THEN /\ h_except(ErrorText("join"))
             /\ h_failed' = "query"
             /\ UNCHANGED <<h_events, h_user, ragVars>>
        ELSE /\ rag_enter(query.text)
             /\ h_pc' = "await_rag"
             /\ h_events' = Append(h_events, "rag") /\ UNCHANGED h_user
             /\ UNCHANGED <<h_after, h_in_try, h_failed>>
             /\ UNCHANGED <<sr_pc, sr_text, sr_retries, sr_attempt, sr_log, sr_exc>>

\* bot.py:152-156: answer_query's result; output_text grows by the answer
h_rag_done ==
  /\ h_pc = "await_rag"
  /\ rag_pc = "done"
  /\ rag_pc' = "idle"
  /\ rag_query' = <<>>
  /\ rag_nodes' = <<>>
  /\ rag_prompts' = <<>>
  /\ rag_result' = NoResult
  /\ UNCHANGED <<RAG_MIN_SCORE, rag_index, rag_retriever>>
  /\ UNCHANGED chat
  /\ UNCHANGED <<ENABLE_RAG, h_parsed, h_data, h_outcome,
                 h_events, h_user, p_pc, p_content, p_result>>
  /\ IF ~rag_result.ok
     THEN /\ h_except(ErrorText("answer_query"))
          /\ h_failed' = "rag"
          /\ UNCHANGED <<h_text, h_chunks>>
     ELSE /\ h_text' = h_text \o <<NL, NL, "---", NL, NL, "Answer LLM+DGT docs:", NL>>
                         \o rag_result.text \o <<NL, NL, "Timing: rag=">>
          /\ h_chunks' = Chunks(h_text', max_len)
          /\ h_pc' = "send"
          /\ UNCHANGED <<h_after, h_in_try, h_failed>>
          /\ UNCHANGED <<sr_pc, sr_text, sr_retries, sr_attempt, sr_log, sr_exc>>

\* bot.py:152, 159-161: 120 s passed before answer_query finished.  The
\* thread runs on unobserved: what it still does to the module globals
\* (rag.py:95-99) is taken to happen here, the rest of it is dropped.
h_rag_timeout(load_ok) ==
  /\ h_pc = "await_rag"
  /\ rag_pc # "done"
  /\ IF rag_pc = "get_retriever" /\ (rag_retriever # "none" \/ rag_index # "none" \/ load_ok)
     THEN rag_index' = "loaded" /\ rag_retriever' = "created"
     ELSE UNCHANGED <<rag_index, rag_retriever>>
  /\ rag_pc' = "idle"
  /\ rag_query' = <<>>
  /\ rag_nodes' = <<>>
  /\ rag_prompts' = <<>>
  /\ rag_result' = NoResult
  /\ UNCHANGED RAG_MIN_SCORE
  /\ h_failed' = "timeout"
  /\ h_except(TimedOutText)
  /\ UNCHANGED chat
  /\ UNCHANGED <<ENABLE_RAG, h_parsed, h_data, h_text, h_chunks,
                 h_outcome, h_events, h_user, p_pc, p_content, p_result>>

\* bot.py:126-128, 157-158: the next chunk is sent; after the last one the
\* handler returns
h_send ==
  /\ h_pc = "send"
  /\ IF h_chunks = <<>>
     THEN /\ h_finish("returned")
          /\ UNCHANGED <<h_after, h_in_try, h_chunks>>
          /\ UNCHANGED <<sr_pc, sr_text, sr_retries, sr_attempt, sr_log, sr_exc>>
     ELSE /\ h_safe_reply(Head(h_chunks), "send", TRUE)
          /\ h_chunks' = Tail(h_chunks)
          /\ UNCHANGED h_outcome
  /\ UNCHANGED chat
  /\ UNCHANGED <<ENABLE_RAG, h_parsed, h_data, h_text, h_failed,
                 h_events, h_user, p_pc, p_content, p_result>>

(* --------------- _get_retriever in concurrent threads ------------------ *)
(* rag.py:93-100 run by several answer_query calls at once: bot.py:152     *)
(* starts each call in a thread of the default executor, and a call that   *)
(* timed out is still running when the next update starts another.  The    *)
(* globals hold the identity of their object: 0 is None, n the n-th object *)
(* made.  Each read and each write of a global is a step of its own.       *)
Threads == 1..NumThreads

GrIdle ==
  /\ gr_index = 0
  /\ gr_retriever = 0
  /\ gr_loads = 0
  /\ gr_made = 0
  /\ gr_used = {}
  /\ gr_pc = [t \in Threads |-> "idle"]
  /\ gr_ret = [t \in Threads |-> 0]

\* rag.py:95: if _retriever is None
RetrieverMissing(retriever) == retriever = 0

\* rag.py:96: if _index is None
IndexMissing(index) == index = 0

\* bot.py:152, rag.py:103-104: answer_query starts in thread t
gr_call(t) ==
  /\ gr_pc[t] = "idle"
  /\ gr_pc' = [gr_pc EXCEPT ![t] = "check_retriever"]
  /\ UNCHANGED <<gr_index, gr_retriever, gr_loads, gr_made, gr_used, gr_ret>>

\* rag.py:95
gr_check_retriever(t) ==
  /\ gr_pc[t] = "check_retriever"
  /\ gr_pc' = [gr_pc EXCEPT
                 ![t] = IF RetrieverMissing(gr_retriever) THEN "check_index" ELSE "return"]
  /\ UNCHANGED <<gr_index, gr_retriever, gr_loads, gr_made, gr_used, gr_ret>>

\* rag.py:96
gr_check_index(t) ==
  /\ gr_pc[t] = "check_index"
  /\ gr_pc' = [gr_pc EXCEPT ![t] = IF IndexMissing(gr_index) THEN "load" ELSE "make"]
  /\ UNCHANGED <<gr_index, gr_retriever, gr_loads, gr_made, gr_used, gr_ret>>

\* rag.py:97, 75-90: _load_index returns a new index object, stored in
\* _index, or raises and ends the call
gr_load(t, ok) ==
  /\ gr_pc[t] = "load"
  /\ IF ok
     THEN /\ gr_loads' = gr_loads + 1
          /\ gr_index' = gr_loads + 1
          /\ gr_pc' = [gr_pc EXCEPT ![t] = "make"]
     ELSE /\ gr_pc' = [gr_pc EXCEPT ![t] = "idle"]
          /\ UNCHANGED <<gr_index, gr_loads>>
  /\ UNCHANGED <<gr_retriever, gr_made, gr_used, gr_ret>>

\* rag.py:98-99: _index.as_retriever makes a new retriever object, stored in
\* _retriever
gr_make(t) ==
  /\ gr_pc[t] = "make"
  /\ gr_made' = gr_made + 1
  /\ gr_retriever' = gr_made + 1
  /\ gr_pc' = [gr_pc EXCEPT ![t] = "return"]
  /\ UNCHANGED <<gr_index, gr_loads, gr_used, gr_ret>>

\* rag.py:100, 104: return _retriever; answer_query holds what the global
\* holds now
gr_return(t) ==
  /\ gr_pc[t] = "return"
  /\ gr_ret' = [gr_ret EXCEPT ![t] = gr_retriever]
  /\ gr_used' = gr_used \cup {gr_retriever}
  /\ gr_pc' = [gr_pc EXCEPT ![t] = "retrieve"]
  /\ UNCHANGED <<gr_index, gr_retriever, gr_loads, gr_made>>

\* rag.py:105-131: the rest of answer_query, with that retriever
gr_finish(t) ==
  /\ gr_pc[t] = "retrieve"
  /\ gr_pc' = [gr_pc EXCEPT ![t] = "idle"]
  /\ gr_ret' = [gr_ret EXCEPT ![t] = 0]
  /\ UNCHANGED <<gr_index, gr_retriever, gr_loads, gr_made, gr_used>>

vars == <<limVars, concVars, srVars, fmtVars, ragVars, hVars, grVars>>

\* the limiter at rest, for the runs that do not call it
LimIdle ==
  /\ LIMIT_PER_DAY = 0
  /\ today = 0
  /\ user_limits = [u \in Users |-> NoRow]
  /\ last = NoCall
  /\ accepted = [u \in Users |-> <<>>]

RagUnused == RAG_MIN_SCORE = 0 /\ RagIdle
HandlerUnused == ENABLE_RAG = FALSE /\ HandlerIdle

Init == LimInit /\ ConcIdle /\ SrIdle /\ FmtIdle /\ RagUnused /\ HandlerUnused /\ GrIdle

Call == \E u \in Users : check_and_increment_limit(u) /\ UNCHANGED <<LIMIT_PER_DAY, today>>
Tick == AdvanceDay /\ UNCHANGED <<LIMIT_PER_DAY, user_limits, last>>

Next ==
  \/ Call /\ UNCHANGED <<concVars, srVars, fmtVars, ragVars, hVars, grVars>>
  \/ Tick /\ UNCHANGED <<concVars, srVars, fmtVars, ragVars, hVars, grVars>>

Spec == Init /\ [][Next]_vars

(* safe_reply called on its own, with any text and any retries *)
ReplyCall ==
  /\ sr_pc \in {"idle", "returned", "raised"}
  /\ \E text \in ReplyTexts, retries \in 0..MaxRetries : sr_enter(text, retries)
  /\ chat' = <<>>
ReplyAttempt == \E outcome \in ReplyOutcomes : sr_reply_text(outcome)

ReplyNext ==
  \/ ReplyCall /\ UNCHANGED <<limVars, concVars, fmtVars, ragVars, hVars, grVars>>
  \/ ReplyAttempt /\ UNCHANGED <<limVars, concVars, fmtVars, ragVars, hVars, grVars>>

ReplyInit == LimIdle /\ ConcIdle /\ SrIdle /\ FmtIdle /\ RagUnused /\ HandlerUnused /\ GrIdle

ReplySpec == ReplyInit /\ [][ReplyNext]_vars

(* format_result called on its own *)
FormatInit == LimIdle /\ ConcIdle /\ SrIdle /\ FmtIdle /\ RagUnused /\ HandlerUnused /\ GrIdle
FormatNext == FormatCall /\ UNCHANGED <<limVars, concVars, srVars, ragVars, hVars, grVars>>
FormatSpec == FormatInit /\ [][FormatNext]_vars

(* answer_query called on its own, one call after the other *)
RagCall ==
  /\ rag_pc \in {"idle", "done"}
  /\ \E query \in RagQueries : rag_enter(query)
RagGetRetriever == \E load_ok \in BOOLEAN : rag_get_retriever(load_ok)
RagRetrieve == \E nodes \in NodeLists : rag_retrieve(nodes)
RagRetrieveFails == rag_retrieve_fails
RagAnswer == \E llm_ok \in BOOLEAN, llm_text \in LlmTexts : rag_answer(llm_ok, llm_text)

RagInit ==
  /\ LimIdle /\ ConcIdle /\ SrIdle /\ FmtIdle /\ RagIdle /\ HandlerUnused /\ GrIdle
  /\ RAG_MIN_SCORE \in 0..MaxMinScore
RagNext ==
  \/ RagCall /\ UNCHANGED <<limVars, concVars, srVars, fmtVars, hVars, grVars>>
  \/ RagGetRetriever /\ UNCHANGED <<limVars, concVars, srVars, fmtVars, hVars, grVars>>
  \/ RagRetrieve /\ UNCHANGED <<limVars, concVars, srVars, fmtVars, hVars, grVars>>
  \/ RagRetrieveFails /\ UNCHANGED <<limVars, concVars, srVars, fmtVars, hVars, grVars>>
  \/ RagAnswer /\ UNCHANGED <<limVars, concVars, srVars, fmtVars, hVars, grVars>>
RagSpec == RagInit /\ [][RagNext]_vars

(* handle_image: one update after the other on the event loop, with the    *)
(* steps of safe_reply, parse_screenshot and answer_query it waits for     *)
HandlerUsers == {0} \cup Users
MessageKinds == {"photo", "document", "other"}
\* RetryAfter is an Exception to handle_image, and safe_reply retries both
HandlerReplyOutcomes == {"ok", "Exception", "BaseException"}
Receive == \E has_message \in BOOLEAN, user \in HandlerUsers : h_receive(has_message, user)
HandlerReply == \E outcome \in HandlerReplyOutcomes : h_pc = "reply" /\ sr_reply_text(outcome)
GetFile == \E kind \in MessageKinds, ok \in BOOLEAN : h_get_file(kind, ok)
NotImage == \E kind \in MessageKinds, outcome \in HandlerReplyOutcomes : h_not_image(kind, outcome)
RagTimeout == \E load_ok \in BOOLEAN : h_rag_timeout(load_ok)
Download == \E ok \in BOOLEAN : h_download(ok)
ParseReturns == \E content \in Contents : p_returns(content)
\* the handler sees only the text answer_query returns: one retrieved node
\* at most is enough here
HandlerNodeLists == {nodes \in NodeLists : Len(nodes) <= 1}
HandlerRag ==
  \/ RagGetRetriever
  \/ \E nodes \in HandlerNodeLists : rag_retrieve(nodes)
  \/ RagRetrieveFails
  \/ RagAnswer

HandlerInit ==
  /\ LimInit /\ LIMIT_PER_DAY <= MaxHandlerLimit
  /\ ConcIdle /\ SrIdle /\ FmtIdle /\ RagIdle /\ HandlerIdle /\ GrIdle
  /\ RAG_MIN_SCORE = 0
  /\ ENABLE_RAG \in BOOLEAN

HandlerNext ==
  \/ Receive /\ UNCHANGED <<concVars, fmtVars, ragVars, grVars>>
  \/ HandlerReply /\ UNCHANGED <<limVars, concVars, fmtVars, ragVars, hVars, grVars>>
  \/ h_reply_returns /\ UNCHANGED <<limVars, concVars, fmtVars, ragVars, grVars>>
  \/ h_reply_raises /\ UNCHANGED <<limVars, concVars, fmtVars, ragVars, grVars>>
  \/ GetFile /\ UNCHANGED <<limVars, concVars, fmtVars, ragVars, grVars>>
  \/ NotImage /\ UNCHANGED <<limVars, concVars, fmtVars, ragVars, grVars>>
  \/ Download /\ UNCHANGED <<limVars, concVars, fmtVars, ragVars, grVars>>
  \/ h_parse_start /\ UNCHANGED <<limVars, concVars, fmtVars, ragVars, grVars>>
  \/ ParseReturns /\ UNCHANGED <<limVars, concVars, fmtVars, ragVars, grVars>>
  \/ p_raises /\ UNCHANGED <<limVars, concVars, fmtVars, ragVars, grVars>>
  \/ h_parse_done /\ UNCHANGED <<limVars, concVars, fmtVars, ragVars, grVars>>
  \/ h_parse_timeout /\ UNCHANGED <<limVars, concVars, fmtVars, ragVars, grVars>>
  \/ h_after_parsed /\ UNCHANGED <<limVars, concVars, fmtVars, ragVars, grVars>>
  \/ h_rag_start /\ UNCHANGED <<limVars, concVars, fmtVars, grVars>>
  \/ HandlerRag /\ UNCHANGED <<limVars, concVars, srVars, fmtVars, hVars, grVars>>
  \/ h_rag_done /\ UNCHANGED <<limVars, concVars, fmtVars, grVars>>
  \/ RagTimeout /\ UNCHANGED <<limVars, concVars, fmtVars, grVars>>
  \/ h_send /\ UNCHANGED <<limVars, concVars, fmtVars, ragVars, grVars>>

HandlerSpec == HandlerInit /\ [][HandlerNext]_vars

(* ------- check_and_increment_limit, one statement at a time ------------ *)
(* Each caller has its own connection (bot.py:187).  The SELECT runs in    *)
(* autocommit mode and holds no lock once its cursor is dropped; sqlite3   *)
(* opens a transaction only before the INSERT, which takes the database's  *)
(* single write lock until commit.                                          *)

\* bot.py:186-191: today is computed, the connection opened
c_begin(c, u) ==
  /\ c_pc[c] = "idle"
  /\ c_pc' = [c_pc EXCEPT ![c] = "select"]
  /\ c_user' = [c_user EXCEPT ![c] = u]
  /\ c_today' = [c_today EXCEPT ![c] = today]
  /\ UNCHANGED <<c_count, db_lock, limVars, srVars, fmtVars, ragVars, hVars, grVars>>

\* bot.py:216-217: the call is over, its connection and locals are gone
c_return(c) ==
  /\ c_pc' = [c_pc EXCEPT ![c] = "idle"]
  /\ c_user' = [c_user EXCEPT ![c] = 0]
  /\ c_today' = [c_today EXCEPT ![c] = 0]
  /\ c_count' = [c_count EXCEPT ![c] = 0]

\* bot.py:192-206: SELECT, the count to start from, the denial or count += 1
c_select(c) ==
  /\ c_pc[c] = "select"
  /\ LET row == user_limits[c_user[c]]
         count == StoredCount(row, c_today[c])
     IN IF LimitReached(count, LIMIT_PER_DAY)
        THEN c_return(c)
        ELSE /\ c_pc' = [c_pc EXCEPT ![c] = "upsert"]
             /\ c_count' = [c_count EXCEPT ![c] = count + 1]
             /\ UNCHANGED <<c_user, c_today>>
  /\ UNCHANGED <<db_lock, limVars, srVars, fmtVars, ragVars, hVars, grVars>>

\* bot.py:207-211: the INSERT ... ON CONFLICT opens the write transaction
c_upsert(c) ==
  /\ c_pc[c] = "upsert"
  /\ db_lock = 0
  /\ db_lock' = c
  /\ c_pc' = [c_pc EXCEPT ![c] = "commit"]
  /\ UNCHANGED <<c_user, c_today, c_count, limVars, srVars, fmtVars, ragVars, hVars, grVars>>

\* bot.py:207-211, 216-217: the write lock is held by another connection for
\* longer than the busy timeout; execute raises and the call ends
c_busy(c) ==
  /\ c_pc[c] = "upsert"
  /\ db_lock # 0
  /\ c_return(c)
  /\ UNCHANGED <<db_lock, limVars, srVars, fmtVars, ragVars, hVars, grVars>>

\* bot.py:212-217: commit publishes the row; the call returns (True, remaining)
c_commit(c) ==
  /\ c_pc[c] = "commit"
  /\ db_lock = c
  /\ db_lock' = 0
  /\ c_return(c)
  /\ user_limits' = [user_limits EXCEPT ![c_user[c]] = Row(c_today[c], c_count[c])]
  /\ accepted' = IF c_today[c] = today
                 THEN [accepted EXCEPT ![c_user[c]] =
                         Append(@, Remaining(c_count[c], LIMIT_PER_DAY))]
                 ELSE accepted
  /\ UNCHANGED <<LIMIT_PER_DAY, today, last, srVars, fmtVars, ragVars, hVars, grVars>>

ConcBegin == \E c \in Conns, u \in Users : c_begin(c, u)
ConcSelect == \E c \in Conns : c_select(c)
ConcUpsert == \E c \in Conns : c_upsert(c)
ConcBusy == \E c \in Conns : c_busy(c)
ConcCommit == \E c \in Conns : c_commit(c)

ConcNext ==
  \/ ConcBegin
  \/ ConcSelect
  \/ ConcUpsert
  \/ ConcBusy
  \/ ConcCommit
  \/ Tick /\ UNCHANGED <<concVars, srVars, fmtVars, ragVars, hVars, grVars>>

ConcSpec == Init /\ [][ConcNext]_vars

(* ============================ claims =================================== *)

\* C1: with sequential calls, the calls allowed for one user on one UTC date
\* never number more than LIMIT_PER_DAY, and no stored count exceeds
\* LIMIT_PER_DAY.
C1_AllowedWithinLimit ==
  \A u \in Users :
    /\ Len(accepted[u]) <= LIMIT_PER_DAY
    /\ user_limits[u].present => user_limits[u].count <= LIMIT_PER_DAY

\* a user used up a positive limit and the next call was denied
C1_Witness ==
  /\ LIMIT_PER_DAY >= 2
  /\ last.called /\ ~last.allowed /\ last.today = today
  /\ Len(accepted[last.user]) = LIMIT_PER_DAY
  /\ user_limits[last.user] = Row(today, LIMIT_PER_DAY)

\* C2: a call for a user with no row, or with a row of another date, is
\* allowed when LIMIT_PER_DAY >= 1 whatever the stored count was, and leaves
\* the row (current date, 1).
C2_ResetAtDayBoundary ==
  (/\ last.called
   /\ LIMIT_PER_DAY >= 1
   /\ (~last.prev.present \/ last.prev.date # last.today))
  => /\ last.allowed
     /\ user_limits[last.user] = Row(last.today, 1)

\* a user who had used up the limit the day before is let in again
C2_Witness ==
  /\ last.called /\ last.allowed
  /\ LIMIT_PER_DAY >= 1
  /\ last.prev.present /\ last.prev.date < last.today
  /\ last.prev.count = LIMIT_PER_DAY
  /\ user_limits[last.user] = Row(last.today, 1)

\* C7: the k-th call allowed for a user on a UTC date reports
\* LIMIT_PER_DAY - k remaining, never a negative value (so the call that
\* reports 0 is the last one allowed that day), and a denied call returns
\* (False, 0).
C7_RemainingCountsDown ==
  /\ \A u \in Users : \A k \in 1..Len(accepted[u]) :
        /\ accepted[u][k] = LIMIT_PER_DAY - k
        /\ accepted[u][k] >= 0
  /\ (last.called /\ last.allowed /\ last.today = today) =>
        /\ Len(accepted[last.user]) >= 1
        /\ last.remaining = accepted[last.user][Len(accepted[last.user])]
  /\ (last.called /\ ~last.allowed) => last.remaining = 0

\* a whole day's countdown LIMIT-1, ..., 0 followed by a denial
C7_Witness ==
  /\ LIMIT_PER_DAY = MaxLimit
  /\ last.called /\ ~last.allowed /\ last.remaining = 0 /\ last.today = today
  /\ accepted[last.user] = [k \in 1..LIMIT_PER_DAY |-> LIMIT_PER_DAY - k]

\* C9: with concurrent calls over separate connections no increment is lost:
\* the calls allowed for a user on the current date never number more than
\* LIMIT_PER_DAY and the stored count for that date equals their number.
C9_NoLostIncrement ==
  \A u \in Users :
    /\ Len(accepted[u]) <= LIMIT_PER_DAY
    /\ StoredCount(user_limits[u], today) = Len(accepted[u])

\* C4 (as the code has it): every reply_text call but the last one made ended
\* in RetryAfter or in another Exception, and safe_reply gives up on such a
\* failure only at its last try, the one after the looped attempts.
C4_RetriesAfterAnyException ==
  /\ \A i \in 1..(Len(sr_log) - 1) : sr_log[i] \in {"RetryAfter", "Exception"}
  /\ (sr_pc = "raised" /\ sr_exc \in {"RetryAfter", "Exception"})
        => Len(sr_log) = sr_retries + 1

\* a reply was sent again after a failure that was no RetryAfter
C4_Witness ==
  /\ Len(sr_log) >= 2
  /\ sr_log[1] = "Exception"
  /\ sr_log[Len(sr_log)] = "ok"
  /\ sr_pc = "returned"

\* C4 (as claimed): a reply is sent again only after a RetryAfter error.
C4_OnlyRetryAfterRetried ==
  \A i \in 1..(Len(sr_log) - 1) : sr_log[i] = "RetryAfter"

\* C10: safe_reply makes at most retries+1 reply_text calls (4 with the
\* default retries), stops at the first one that succeeds, so the text is
\* delivered at most once, and when every call failed the exception of the
\* last call leaves safe_reply.
C10_AttemptsAndOutcome ==
  /\ Len(sr_log) <= sr_retries + 1
  /\ sr_retries = DefaultRetries => Len(sr_log) <= 4
  /\ \A i \in 1..Len(sr_log) : sr_log[i] = "ok" => (i = Len(sr_log) /\ sr_pc = "returned")
  /\ Cardinality({i \in 1..Len(chat) : chat[i] = sr_text}) =
        Cardinality({i \in 1..Len(sr_log) : sr_log[i] = "ok"})
  /\ Len(chat) <= 1
  /\ sr_pc = "returned" => (sr_log # <<>> /\ sr_log[Len(sr_log)] = "ok")
  /\ sr_pc = "raised" => (sr_log # <<>> /\ sr_exc = sr_log[Len(sr_log)] /\ sr_exc # "ok")
  /\ (Len(sr_log) = sr_retries + 1 /\ \A i \in 1..Len(sr_log) : sr_log[i] # "ok")
        => sr_pc = "raised"

\* the default call used up its four tries and the last failure propagated
C10_Witness ==
  /\ sr_retries = DefaultRetries
  /\ Len(sr_log) = 4
  /\ sr_pc = "raised" /\ sr_exc = "RetryAfter"
  /\ chat = <<>>

\* the sections of a record's layout, as the claim C8 names them
C8_Sections(data) ==
  (IF data.question.k = "str" /\ Strip(data.question.v) # <<>>
     THEN << << <<"Question: ">> \o Strip(data.question.v) >> >> ELSE <<>>)
  \o (IF data.options.k = "list" /\ SelectItems(data.options.v) # <<>>
     THEN << SelectItems(data.options.v) >> ELSE <<>>)
  \o (IF Truthy(data.correct)
     THEN << << <<"Correct answer: ">> \o data.correct.v >> >> ELSE <<>>)
  \o (IF data.explanation.k = "str" /\ Strip(data.explanation.v) # <<>>
     THEN << << <<"Explanation from LLM:">>, Strip(data.explanation.v) >> >> ELSE <<>>)
  \o (IF data.sign_description.k = "str" /\ Strip(data.sign_description.v) # <<>>
     THEN << << <<"Sign: ">> \o Strip(data.sign_description.v) >> >> ELSE <<>>)

\* the sections' lines, one blank line before every section after the first
RECURSIVE C8_Layout(_)
C8_Layout(sections) ==
  IF sections = <<>> THEN <<>>
  ELSE IF Len(sections) = 1 THEN sections[1]
  ELSE sections[1] \o << <<>> >> \o C8_Layout(Tail(sections))

\* C8: format_result's text is fixed by the record: a record with 'error'
\* gives the error text with the raw output; otherwise the sections present
\* come in the order question, string options, correct answer, explanation,
\* sign, a blank line before each later one, and the fallback text is
\* returned exactly when no section is present.
C8_FixedLayout ==
  f_called =>
    IF f_data.error.k # "absent"
    THEN f_result = Returns(<<"Error: ">> \o f_data.error.v
                              \o <<NL, NL, "Raw output:", NL>> \o f_data.raw.v)
    ELSE IF C8_Sections(f_data) = <<>>
    THEN f_result = Returns(Fallback)
    ELSE /\ f_result.ok
         /\ f_result.text \in {Join(C8_Layout(C8_Sections(f_data))),
                               <<NL>> \o Join(C8_Layout(C8_Sections(f_data)))}

\* the contents of the nodes with score None or score >= RAG_MIN_SCORE, in
\* retrieval order
RECURSIVE C6_PassingContents(_)
C6_PassingContents(nodes) ==
  IF nodes = <<>> THEN <<>>
  ELSE (IF ~Head(nodes).has_score \/ Head(nodes).score >= RAG_MIN_SCORE
        THEN <<Head(nodes).content>> ELSE <<>>) \o C6_PassingContents(Tail(nodes))

RECURSIVE C6_Paragraphs(_)
C6_Paragraphs(contents) ==
  IF contents = <<>> THEN <<>>
  ELSE IF Len(contents) = 1 THEN <<contents[1]>>
  ELSE <<contents[1], NL, NL>> \o C6_Paragraphs(Tail(contents))

\* C6: answer_query calls complete exactly once if a retrieved node has score
\* None or score >= RAG_MIN_SCORE, with a prompt whose context is the content
\* of exactly those nodes in retrieval order, and not at all otherwise, when
\* it returns the fixed 'Not sure' text.
C6_RetrieveFilterComplete ==
  /\ Len(rag_prompts) <= 1
  /\ rag_pc \in {"get_retriever", "retrieve", "answer"} => rag_prompts = <<>>
  /\ rag_pc = "done" =>
        IF C6_PassingContents(rag_nodes) # <<>>
        THEN rag_prompts =
               << <<"You are a driving theory exam tutor. ... Context:", NL>>
                    \o C6_Paragraphs(C6_PassingContents(rag_nodes))
                    \o <<NL, NL, "Question:", NL>> \o rag_query \o <<NL, NL, "Answer:">> >>
        ELSE /\ rag_prompts = <<>>
             /\ rag_result \in {Returns(NotSure), Raises}
             /\ rag_nodes # <<>> => rag_result = Returns(NotSure)

\* two nodes were retrieved, the first below the threshold, the second
\* without a score, and complete was called with the second alone
C6_Witness ==
  /\ rag_pc = "done"
  /\ Len(rag_nodes) = 2
  /\ rag_nodes[1].has_score /\ rag_nodes[1].score < RAG_MIN_SCORE
  /\ ~rag_nodes[2].has_score
  /\ Len(rag_prompts) = 1
  /\ rag_result.ok

\* C3: every error met while an image message is handled (get_file, the
\* download, parse_screenshot, format_result, the query, answer_query, a
\* timeout) is caught in the handler and reported in the chat, and no
\* exception leaves handle_image.
C3_ErrorsCaughtAndReported ==
  /\ h_outcome # "raised"
  /\ (h_pc = "done" /\ h_failed \notin {"none", "reply"}) =>
        \E i \in 1..Len(chat) :
          chat[i] = TimedOutText \/ Head(chat[i]) = "Error while processing: "

\* C5: when json.loads fails on the model output, parse_screenshot returns
\* a record with 'error' and with 'raw' the model's output (up to the
\* whitespace around it), and a handler that then returns has sent a reply
\* holding that raw text, no 'Screenshot parsed successfully.' and has made
\* no RAG query.
C5_ParseFailureSurfaced ==
  /\ (p_pc = "done" /\ ~JsonLoads(Extract(Strip(p_content)))) =>
        /\ ~p_result.raised
        /\ p_result.data.error = Str(ParseError)
        /\ p_result.data.raw.k = "str"
        /\ Strip(p_result.data.raw.v) = Strip(p_content)
  /\ (h_pc = "done" /\ h_outcome = "returned" /\ h_failed = "none"
        /\ h_parsed /\ h_data.error.k # "absent") =>
        /\ \E i \in 1..Len(chat) : FindSub(chat[i], h_data.raw.v) # 0
        /\ \A i \in 1..Len(chat) : chat[i] # ParsedText
        /\ \A i \in 1..Len(h_events) : h_events[i] # "rag"

\* the positions in h_events of the limit checks, and of the calls the limit
\* guards
LimitChecks ==
  {i \in 1..Len(h_events) : h_events[i] \in {"limit_allowed", "limit_denied"}}
GuardedCalls ==
  {i \in 1..Len(h_events) : h_events[i] \in {"get_file", "download", "parse", "rag"}}

\* C11: a message with a sender is checked against the daily limit exactly
\* once, and before any get_file, download, parse_screenshot or answer_query
\* call; after a denial the handler makes none of these calls and sends
\* nothing but the 'Daily limit reached' reply; so every parse or RAG call
\* for a user with an id follows an allowed check of the same message.
C11_LimitCheckedFirst ==
  (h_user # 0) =>
    /\ LimitChecks = {1}
    /\ last.user = h_user
    /\ last.allowed <=> (h_events[1] = "limit_allowed")
    /\ (h_events[1] = "limit_denied") =>
          /\ GuardedCalls = {}
          /\ p_pc = "idle" /\ rag_pc = "idle"
          /\ sr_pc # "idle" => sr_text = LimitReachedText
          /\ Len(chat) <= 1
          /\ \A i \in 1..Len(chat) : chat[i] = LimitReachedText
    /\ (p_pc # "idle" \/ rag_pc # "idle" \/ GuardedCalls # {}) =>
          h_events[1] = "limit_allowed"

\* a denied message was answered with the one reply and the handler returned
C11_Witness ==
  /\ h_user # 0
  /\ h_events = <<"limit_denied">>
  /\ h_outcome = "returned"
  /\ chat = <<LimitReachedText>>
  /\ user_limits[h_user].count = LIMIT_PER_DAY
  /\ LIMIT_PER_DAY > 0

\* a RAG call was made for a message whose sender was within the limit
C11_RagAfterAllowed ==
  /\ h_user # 0
  /\ h_events = <<"limit_allowed", "get_file", "download", "parse", "rag">>
  /\ rag_pc = "done"

(* answer_query calls in concurrent threads, as far as the retriever goes *)
GrCall == \E t \in Threads : gr_call(t)
GrCheckRetriever == \E t \in Threads : gr_check_retriever(t)
GrCheckIndex == \E t \in Threads : gr_check_index(t)
GrLoad == \E t \in Threads, ok \in BOOLEAN : gr_load(t, ok)
GrMake == \E t \in Threads : gr_make(t)
GrReturn == \E t \in Threads : gr_return(t)
GrFinish == \E t \in Threads : gr_finish(t)

GrInit == LimIdle /\ ConcIdle /\ SrIdle /\ FmtIdle /\ RagUnused /\ HandlerUnused /\ GrIdle
GrNext ==
  \/ GrCall /\ UNCHANGED <<limVars, concVars, srVars, fmtVars, ragVars, hVars>>
  \/ GrCheckRetriever /\ UNCHANGED <<limVars, concVars, srVars, fmtVars, ragVars, hVars>>
  \/ GrCheckIndex /\ UNCHANGED <<limVars, concVars, srVars, fmtVars, ragVars, hVars>>
  \/ GrLoad /\ UNCHANGED <<limVars, concVars, srVars, fmtVars, ragVars, hVars>>
  \/ GrMake /\ UNCHANGED <<limVars, concVars, srVars, fmtVars, ragVars, hVars>>
  \/ GrReturn /\ UNCHANGED <<limVars, concVars, srVars, fmtVars, ragVars, hVars>>
  \/ GrFinish /\ UNCHANGED <<limVars, concVars, srVars, fmtVars, ragVars, hVars>>
GrSpec == GrInit /\ [][GrNext]_vars

\* C12: whatever the interleaving of answer_query calls, _load_index returns
\* an index at most once, as_retriever makes one retriever object at most,
\* and every call gets that same object.
C12_OneIndexOneRetriever ==
  /\ gr_loads <= 1
  /\ gr_made <= 1
  /\ Cardinality(gr_used) <= 1

====
